---- MODULE Spec2Model ----
(***************************************************************************)
(* The RNN graph builder of rnn/rnn.py.  An RNN object holds handles into  *)
(* a symbol graph owned by the tensor engine; get_outputs unrolls the      *)
(* recurrence by appending one group of graph nodes per (timestep, layer)  *)
(* cell and returns handles to them.  The graph is kept as the sequence of *)
(* its nodes in creation order; a symbol is a handle (node, output index). *)
(***************************************************************************)
EXTENDS Integers, Sequences, FiniteSets, TLC

(* ---------------------------------------------------------------- bounds *)
\* largest seq_len and num_layers of the objects explored
MaxSeqLen == 2
MaxLayers == 2
\* hidden sizes and dropout rates (in tenths) of the objects explored
HiddenSizes == {1}
DropoutRates == {0, 5}

VARIABLES
    \* fields of the object, set by __init__
    data, mask, mode, seq_len, real_seq_len, num_layers, num_hidden,
    bi_directional, states, cells, dropout, name,
    \* parameter and state lists of the object
    param_cells, forward_param_cells, backward_param_cells,
    last_states, forward_last_states, backward_last_states,
    \* the engine's symbol graph
    graph,
    \* position and locals of the running unroll routine
    pc, wordvec, maskvec, seqidx, layeridx, hidden,
    forward_last_layer_hidden_all, forward_hidden_all, forward_candidates_all,
    backward_last_layer_hidden_all, backward_hidden_all, backward_candidates_all,
    outputs,
    \* log of the cell calls made so far (arguments and result of each)
    calls

fields == <<data, mask, mode, seq_len, real_seq_len, num_layers, num_hidden,
            bi_directional, states, cells, dropout, name>>
params == <<param_cells, forward_param_cells, backward_param_cells>>
uni_state == <<last_states>>
fwd_state == <<forward_last_states>>
bwd_state == <<backward_last_states>>
fwd_lists == <<forward_last_layer_hidden_all, forward_hidden_all, forward_candidates_all>>
bwd_lists == <<backward_last_layer_hidden_all, backward_hidden_all, backward_candidates_all>>
vars == <<fields, params, uni_state, fwd_state, bwd_state, graph, pc, wordvec,
          maskvec, seqidx, layeridx, hidden, fwd_lists, bwd_lists, outputs, calls>>

(* ------------------------------------------------------- symbols, graph *)
\* a symbol: output `out` of graph node `node`
Sym(n, k) == [node |-> n, out |-> k]
\* Python's None, where a symbol is expected and where a list is expected
None == [node |-> 0, out |-> 0]
NoneList == <<>>

Node(op, args, nm, attr) == [op |-> op, args |-> args, name |-> nm, attr |-> attr]

\* appending a node to the graph; the symbol of the node appended last
Emit(g, nd) == Append(g, nd)
Top(g) == Sym(Len(g), 0)

Variable(nm) == Node("Variable", <<>>, nm, [kind |-> "arg"])

\* the layer index left out of a name
FmtNoIndex(i) == ""

\* "%d" % i
Fmt(i) == ToString(i)

\* a list of n empty lists
RECURSIVE EmptyLists(_)
EmptyLists(n) == IF n = 0 THEN <<>> ELSE <<<<>>>> \o EmptyLists(n - 1)

\* list.append(x) where the source inserts at the front
InsertAtEnd(l, x) == Append(l, x)

\* list.insert(0, x)
Insert0(l, x) == <<x>> \o l

(* ----------------------------------------------------- setup_parameter *)
\* the four placeholder variables of one LSTM layer, named with the four
\* prefixes given (the source spells the forward i2h_weight prefix "foward")
LSTMParamAt(g, pw, pre, i) ==
    LET n == Len(g)
        l == "_l" \o Fmt(i)
    IN [graph |-> g \o << Variable(pw \o l \o "_i2h_weight"),
                          Variable(pre \o l \o "_i2h_bias"),
                          Variable(pre \o l \o "_h2h_weight"),
                          Variable(pre \o l \o "_h2h_bias") >>,
        param |-> [i2h_weight |-> Sym(n + 1, 0), i2h_bias |-> Sym(n + 2, 0),
                   h2h_weight |-> Sym(n + 3, 0), h2h_bias |-> Sym(n + 4, 0)]]

\* the eight placeholder variables of one GRU layer
GRUParamAt(g, pre, i) ==
    LET n == Len(g)
        l == "_l" \o Fmt(i)
    IN [graph |-> g \o << Variable(pre \o l \o "_i2h_gates_weight"),
                          Variable(pre \o l \o "_i2h_gates_bias"),
                          Variable(pre \o l \o "_h2h_gates_weight"),
                          Variable(pre \o l \o "_h2h_gates_bias"),
                          Variable(pre \o l \o "_i2h_trans_weight"),
                          Variable(pre \o l \o "_i2h_trans_bias"),
                          Variable(pre \o l \o "_h2h_trans_weight"),
                          Variable(pre \o l \o "_h2h_trans_bias") >>,
        param |-> [gates_i2h_weight |-> Sym(n + 1, 0), gates_i2h_bias |-> Sym(n + 2, 0),
                   gates_h2h_weight |-> Sym(n + 3, 0), gates_h2h_bias |-> Sym(n + 4, 0),
                   trans_i2h_weight |-> Sym(n + 5, 0), trans_i2h_bias |-> Sym(n + 6, 0),
                   trans_h2h_weight |-> Sym(n + 7, 0), trans_h2h_bias |-> Sym(n + 8, 0)]]

\* the loop body of setup_parameter for layer i: s holds the graph and the
\* lists built so far
SetupParameterLayer(s, md, bi, nm, i) ==
    IF md = "gru" THEN
        IF ~bi THEN
            LET p == GRUParamAt(s.graph, nm, i)
            IN [s EXCEPT !.graph = p.graph,
                         !.param_cells = Append(@, p.param)]
        ELSE
            LET f == GRUParamAt(s.graph, nm \o "_forward", i)
                b == GRUParamAt(f.graph, nm \o "_backward", i)
            IN [s EXCEPT !.graph = b.graph,
                         !.forward_param_cells = Append(@, f.param),
                         !.backward_param_cells = Append(@, b.param)]
    ELSE IF md = "lstm" THEN
        IF ~bi THEN
            LET p == LSTMParamAt(s.graph, nm, nm, i)
            IN [s EXCEPT !.graph = p.graph,
                         !.param_cells = Append(@, p.param)]
        ELSE
            LET f == LSTMParamAt(s.graph, nm \o "_foward", nm \o "_forward", i)
                b == LSTMParamAt(f.graph, nm \o "_backward", nm \o "_backward", i)
            IN [s EXCEPT !.graph = b.graph,
                         !.forward_param_cells = Append(@, f.param),
                         !.backward_param_cells = Append(@, b.param)]
    ELSE s

RECURSIVE SetupParameterFrom(_, _, _, _, _, _)
SetupParameterFrom(s, md, bi, nm, L, i) ==
    IF i >= L THEN s
    ELSE SetupParameterFrom(SetupParameterLayer(s, md, bi, nm, i), md, bi, nm, L, i + 1)

\* setup_parameter: the parameter lists of the object, one tuple per layer
SetupParameter(g, md, bi, nm, L) ==
    SetupParameterFrom([graph |-> g, param_cells |-> <<>>,
                        forward_param_cells |-> <<>>, backward_param_cells |-> <<>>],
                       md, bi, nm, L, 0)

(* --------------------------------------------------- setup_init_states *)
\* SliceChannel(sym, num_outputs = 2, axis = 1, name = nm)
SliceInit(g, sym, nm) ==
    Emit(g, Node("SliceChannel", <<sym>>, nm,
                 [num_outputs |-> 2, axis |-> 1, squeeze_axis |-> FALSE]))

\* the initial value of one state component (tag "h" or "c") of layer i for
\* a unidirectional network: the supplied symbol, or a fresh variable
InitOneUni(g, given, nm, i, tag) ==
    IF given # NoneList
    THEN [graph |-> g, sym |-> given[i + 1]]
    ELSE LET g1 == Emit(g, Variable(nm \o "_l" \o Fmt(i) \o "_init_" \o tag))
         IN [graph |-> g1, sym |-> Top(g1)]

\* the halves of the supplied symbol given to the opposite directions
InitOneBiSwapped(g, given, nm, i, tag, slicename) ==
    IF given # NoneList
    THEN LET g1 == SliceInit(g, given[i + 1], slicename \o Fmt(i))
         IN [graph |-> g1, fwd |-> Sym(Len(g1), 1), bwd |-> Sym(Len(g1), 0)]
    ELSE LET g1 == Emit(g, Variable(nm \o "_forward_l" \o Fmt(i) \o "_init_" \o tag))
             g2 == Emit(g1, Variable(nm \o "_backward_l" \o Fmt(i) \o "_init_" \o tag))
         IN [graph |-> g2, fwd |-> Top(g1), bwd |-> Top(g2)]

\* the same for a bidirectional network: the two halves of the supplied
\* symbol, or two fresh variables
InitOneBi(g, given, nm, i, tag, slicename) ==
    IF given # NoneList
    THEN LET g1 == SliceInit(g, given[i + 1], slicename \o Fmt(i))
         IN [graph |-> g1, fwd |-> Sym(Len(g1), 0), bwd |-> Sym(Len(g1), 1)]
    ELSE LET g1 == Emit(g, Variable(nm \o "_forward_l" \o Fmt(i) \o "_init_" \o tag))
             g2 == Emit(g1, Variable(nm \o "_backward_l" \o Fmt(i) \o "_init_" \o tag))
         IN [graph |-> g2, fwd |-> Top(g1), bwd |-> Top(g2)]

\* the loop body of setup_init_states for layer i
SetupInitStatesLayer(s, md, bi, nm, st, ce, i) ==
    IF md = "gru" THEN
        IF ~bi THEN
            LET h == InitOneUni(s.graph, st, nm, i, "h")
            IN [s EXCEPT !.graph = h.graph,
                         !.last_states = Append(@, [h |-> h.sym])]
        ELSE
            LET h == InitOneBi(s.graph, st, nm, i, "h", "bi_init_states_slice_layer_")
            IN [s EXCEPT !.graph = h.graph,
                         !.forward_last_states = Append(@, [h |-> h.fwd]),
                         !.backward_last_states = Append(@, [h |-> h.bwd])]
    ELSE IF md = "lstm" THEN
        IF ~bi THEN
            LET h == InitOneUni(s.graph, st, nm, i, "h")
                c == InitOneUni(h.graph, ce, nm, i, "c")
            IN [s EXCEPT !.graph = c.graph,
                         !.last_states = Append(@, [c |-> c.sym, h |-> h.sym])]
        ELSE
            LET h == InitOneBi(s.graph, st, nm, i, "h", "bi_init_states_slice_layer_")
                c == InitOneBi(h.graph, ce, nm, i, "c", "bi_init_cells_slice_layer_")
            IN [s EXCEPT !.graph = c.graph,
                         !.forward_last_states = Append(@, [c |-> c.fwd, h |-> h.fwd]),
                         !.backward_last_states = Append(@, [c |-> c.bwd, h |-> h.bwd])]
    ELSE s

RECURSIVE SetupInitStatesFrom(_, _, _, _, _, _, _, _)
SetupInitStatesFrom(s, md, bi, nm, st, ce, L, i) ==
    IF i >= L THEN s
    ELSE SetupInitStatesFrom(SetupInitStatesLayer(s, md, bi, nm, st, ce, i),
                             md, bi, nm, st, ce, L, i + 1)

\* setup_init_states: the state lists of the object, one state per layer
SetupInitStates(g, md, bi, nm, st, ce, L) ==
    SetupInitStatesFrom([graph |-> g, last_states |-> <<>>,
                         forward_last_states |-> <<>>, backward_last_states |-> <<>>],
                        md, bi, nm, st, ce, L, 0)

(* ------------------------------------------------ engine operators *)
\* mx.sym.Dropout(data = x, p = p)
Dropout(x, p) == Node("Dropout", <<x>>, "", [p |-> p])
\* mx.sym.FullyConnected(data, weight, bias, num_hidden, name)
FullyConnected(x, w, b, n, nm) ==
    Node("FullyConnected", <<x, w, b>>, nm, [num_hidden |-> n])
\* mx.sym.SliceChannel(data, num_outputs, name) along the default axis 1
SliceChannel(x, n, nm) ==
    Node("SliceChannel", <<x>>, nm, [num_outputs |-> n, axis |-> 1, squeeze_axis |-> FALSE])
\* mx.sym.SliceChannel(data, num_outputs, axis = 1, squeeze_axis = True, name)
SliceSqueeze(x, n, nm) ==
    Node("SliceChannel", <<x>>, nm, [num_outputs |-> n, axis |-> 1, squeeze_axis |-> TRUE])
\* mx.sym.Activation(x, act_type)
Activation(x, act) == Node("Activation", <<x>>, "", [act_type |-> act])
\* a + b, a * b, a - b on symbols
Plus(a, b) == Node("_Plus", <<a, b>>, "", [kind |-> "elemwise"])
Mul(a, b) == Node("_Mul", <<a, b>>, "", [kind |-> "elemwise"])
Minus(a, b) == Node("_Minus", <<a, b>>, "", [kind |-> "elemwise"])
\* mx.sym.Reshape(data, shape), mx.sym.transpose(data, axes)
Reshape(x, shape) == Node("Reshape", <<x>>, "", [shape |-> shape])
Transpose(x, axes) == Node("transpose", <<x>>, "", [axes |-> axes])
\* mx.sym.broadcast_mul(a, b, name)
BroadcastMul(a, b, nm) == Node("broadcast_mul", <<a, b>>, nm, [kind |-> "broadcast"])
\* mx.sym.Concat(*xs, dim)
Concat(xs, dim) == Node("Concat", xs, "", [dim |-> dim])
\* SequenceLast that never uses the sequence length
SequenceLastNoLength(x, len, nm) ==
    Node("SequenceLast", <<x>>, nm, [use_sequence_length |-> FALSE])

\* mx.symbol.SequenceLast(data, sequence_length, use_sequence_length, name)
SequenceLast(x, len, nm) ==
    IF len # None
    THEN Node("SequenceLast", <<x, len>>, nm, [use_sequence_length |-> TRUE])
    ELSE Node("SequenceLast", <<x>>, nm, [use_sequence_length |-> FALSE])

(* ---------------------------------------------------------------- lstm *)
\* which output of the gate slice feeds each gate of the LSTM cell
LstmInGateChunk == 0
LstmInTransformChunk == 1
\* the forget gate read from the input gate's chunk
ForgetFromInGateChunk == LstmInGateChunk
LstmForgetGateChunk == 2
LstmOutGateChunk == 3

\* the input of the cell's affine transforms: the dropped-out input when
\* the rate is positive
CellInput(g, indata, dp) ==
    IF dp > 0
    THEN LET g1 == Emit(g, Dropout(indata, dp)) IN [graph |-> g1, sym |-> Top(g1)]
    ELSE [graph |-> g, sym |-> indata]

\* the nodes a cell appends when a mask is given: the reshaped mask and one
\* product with it per state component in `comps`; n is the number of nodes
\* before them
MaskNodes(n, msk, comps, names) ==
    IF msk = None THEN <<>>
    ELSE <<Reshape(msk, <<-1, 1>>)>> \o
         [k \in 1..Len(comps) |-> BroadcastMul(comps[k], Sym(n + 1, 0), names[k])]

\* the body of lstm after the optional dropout: x holds the graph so far and
\* the input of the affine transforms; node n + k is the k-th node appended
LstmBody(x, nh, msk, prev_state, param, t, l) ==
    LET n == Len(x.graph)
        tl == "t" \o Fmt(t) \o "_l" \o Fmt(l)
        i2h == Sym(n + 1, 0)
        h2h == Sym(n + 2, 0)
        gates == Sym(n + 3, 0)
        slice_gates == n + 4
        in_gate == Sym(n + 5, 0)
        in_transform == Sym(n + 6, 0)
        forget_gate == Sym(n + 7, 0)
        out_gate == Sym(n + 8, 0)
        next_c == Sym(n + 11, 0)
        next_h == Sym(n + 13, 0)
        body == << FullyConnected(x.sym, param.i2h_weight, param.i2h_bias,
                                  nh * 4, tl \o "_i2h"),
                   FullyConnected(prev_state.h, param.h2h_weight, param.h2h_bias,
                                  nh * 4, tl \o "_h2h"),
                   Plus(i2h, h2h),
                   SliceChannel(gates, 4, tl \o "_h2h"),
                   Activation(Sym(slice_gates, LstmInGateChunk), "sigmoid"),
                   Activation(Sym(slice_gates, LstmInTransformChunk), "tanh"),
                   Activation(Sym(slice_gates, LstmForgetGateChunk), "sigmoid"),
                   Activation(Sym(slice_gates, LstmOutGateChunk), "sigmoid"),
                   Mul(forget_gate, prev_state.c),
                   Mul(in_gate, in_transform),
                   Plus(Sym(n + 9, 0), Sym(n + 10, 0)),
                   Activation(next_c, "tanh"),
                   Mul(out_gate, Sym(n + 12, 0)) >>
        masked == MaskNodes(n + 13, msk, <<next_c, next_h>>,
                            <<"c_broadcast_mul", "h_broadcast_mul">>)
    IN [graph |-> x.graph \o body \o masked,
        state |-> IF msk # None
                  THEN [c |-> Sym(n + 15, 0), h |-> Sym(n + 16, 0)]
                  ELSE [c |-> next_c, h |-> next_h]]

\* lstm: the nodes of one LSTM cell appended to g, and the cell's next state
lstm(g, nh, indata, msk, prev_state, param, t, l, dp) ==
    LstmBody(CellInput(g, indata, dp), nh, msk, prev_state, param, t, l)

(* ----------------------------------------------------------------- gru *)
\* which output of the gate slice feeds each gate of the GRU cell
GruUpdateGateChunk == 0
\* the reset gate read from the update gate's chunk
ResetFromUpdateChunk == GruUpdateGateChunk
GruResetGateChunk == 1

\* the body of gru after the optional dropout; the names of the two gate
\* transforms are left unformatted by the source
GruBody(x, nh, msk, prev_state, param, t, l) ==
    LET n == Len(x.graph)
        tl == "t" \o Fmt(t) \o "_l" \o Fmt(l)
        i2h == Sym(n + 1, 0)
        h2h == Sym(n + 2, 0)
        gates == Sym(n + 3, 0)
        slice_gates == n + 4
        update_gate == Sym(n + 5, 0)
        reset_gate == Sym(n + 6, 0)
        htrans_i2h == Sym(n + 7, 0)
        h_after_reset == Sym(n + 8, 0)
        htrans_h2h == Sym(n + 9, 0)
        h_trans == Sym(n + 10, 0)
        h_trans_active == Sym(n + 11, 0)
        next_h == Sym(n + 14, 0)
        body == << FullyConnected(x.sym, param.gates_i2h_weight, param.gates_i2h_bias,
                                  nh * 2, "t%d_l%d_gates_i2h"),
                   FullyConnected(prev_state.h, param.gates_h2h_weight,
                                  param.gates_h2h_bias, nh * 2, "t%d_l%d_gates_h2h"),
                   Plus(i2h, h2h),
                   SliceChannel(gates, 2, tl \o "_slice"),
                   Activation(Sym(slice_gates, GruUpdateGateChunk), "sigmoid"),
                   Activation(Sym(slice_gates, GruResetGateChunk), "sigmoid"),
                   FullyConnected(x.sym, param.trans_i2h_weight, param.trans_i2h_bias,
                                  nh, tl \o "_trans_i2h"),
                   Mul(prev_state.h, reset_gate),
                   FullyConnected(h_after_reset, param.trans_h2h_weight,
                                  param.trans_h2h_bias, nh, tl \o "_trans_h2h"),
                   Plus(htrans_i2h, htrans_h2h),
                   Activation(h_trans, "tanh"),
                   Minus(h_trans_active, prev_state.h),
                   Mul(update_gate, Sym(n + 12, 0)),
                   Plus(prev_state.h, Sym(n + 13, 0)) >>
        masked == MaskNodes(n + 14, msk, <<next_h>>, <<"h_broadcast_mul">>)
    IN [graph |-> x.graph \o body \o masked,
        state |-> IF msk # None THEN [h |-> Sym(n + 16, 0)] ELSE [h |-> next_h]]

\* gru: the nodes of one GRU cell appended to g, and the cell's next state
gru(g, nh, indata, msk, prev_state, param, t, l, dp) ==
    GruBody(CellInput(g, indata, dp), nh, msk, prev_state, param, t, l)

(* ------------------------------------------------------------ __init__ *)
\* the symbols the caller passes in: data, and optionally mask, real_seq_len
\* and one initial state / cell symbol per layer
RECURSIVE CallerList(_, _, _)
CallerList(g, tag, L) ==
    IF L = 0 THEN [graph |-> g, syms |-> <<>>]
    ELSE LET r == CallerList(g, tag, L - 1)
             g1 == Emit(r.graph, Variable(tag \o Fmt(L - 1)))
         IN [graph |-> g1, syms |-> Append(r.syms, Top(g1))]

CallerSymbols(L, useMask, useLen, useStates, useCells) ==
    LET g0 == <<Variable("data")>>
        g1 == IF useMask THEN Emit(g0, Variable("mask")) ELSE g0
        g2 == IF useLen THEN Emit(g1, Variable("real_seq_len")) ELSE g1
        st == IF useStates THEN CallerList(g2, "init_state_", L)
                           ELSE [graph |-> g2, syms |-> NoneList]
        ce == IF useCells THEN CallerList(st.graph, "init_cell_", L)
                          ELSE [graph |-> st.graph, syms |-> NoneList]
    IN [graph |-> ce.graph,
        data |-> Sym(1, 0),
        mask |-> IF useMask THEN Sym(2, 0) ELSE None,
        real_seq_len |-> IF useLen THEN Top(g2) ELSE None,
        states |-> st.syms,
        cells |-> ce.syms]

Modes == {"lstm", "gru"}

\* the modes a caller passes: the two the class knows and one it does not
ModeInputs == Modes \cup {"rnn"}

\* every mode taken for a known one
AnyModeValid(md) == TRUE

\* the mode test of __init__: any other mode raises 'Invalid mode.'
ValidMode(md) == md \in Modes

\* __init__: the fields, lists and graph of a newly constructed object; when
\* the mode test raises, the fields are assigned and neither setup routine
\* has run, so no list exists and no variable was created
Construct(md, bi, L, useMask, useLen, useStates, useCells) ==
    LET a == CallerSymbols(L, useMask, useLen, useStates, useCells)
        p == SetupParameter(a.graph, md, bi, "rnn", L)
        s == SetupInitStates(p.graph, md, bi, "rnn", a.states, a.cells, L)
    IN IF ValidMode(md)
       THEN [data |-> a.data, mask |-> a.mask, real_seq_len |-> a.real_seq_len,
             states |-> a.states, cells |-> a.cells,
             param_cells |-> p.param_cells,
             forward_param_cells |-> p.forward_param_cells,
             backward_param_cells |-> p.backward_param_cells,
             last_states |-> s.last_states,
             forward_last_states |-> s.forward_last_states,
             backward_last_states |-> s.backward_last_states,
             graph |-> s.graph, raised |-> FALSE]
       ELSE [data |-> a.data, mask |-> a.mask, real_seq_len |-> a.real_seq_len,
             states |-> a.states, cells |-> a.cells,
             param_cells |-> NoneList,
             forward_param_cells |-> NoneList,
             backward_param_cells |-> NoneList,
             last_states |-> NoneList,
             forward_last_states |-> NoneList,
             backward_last_states |-> NoneList,
             graph |-> a.graph, raised |-> TRUE]

Init ==
    \E md \in ModeInputs, bi \in BOOLEAN, T \in 1..MaxSeqLen, L \in 1..MaxLayers,
       nh \in HiddenSizes, dp \in DropoutRates,
       useMask \in BOOLEAN, useLen \in BOOLEAN, useStates \in BOOLEAN :
      \E useCells \in (IF md = "lstm" THEN BOOLEAN ELSE {FALSE}) :
      \E o \in {Construct(md, bi, L, useMask, useLen, useStates, useCells)} :
           /\ data = o.data /\ mask = o.mask /\ mode = md /\ seq_len = T
           /\ real_seq_len = o.real_seq_len /\ num_layers = L /\ num_hidden = nh
           /\ bi_directional = bi /\ states = o.states /\ cells = o.cells
           /\ dropout = dp /\ name = "rnn"
           /\ param_cells = o.param_cells
           /\ forward_param_cells = o.forward_param_cells
           /\ backward_param_cells = o.backward_param_cells
           /\ last_states = o.last_states
           /\ forward_last_states = o.forward_last_states
           /\ backward_last_states = o.backward_last_states
           /\ graph = o.graph
           /\ pc = IF o.raised THEN "raised" ELSE "idle"
           /\ wordvec = None /\ maskvec = None /\ seqidx = 0 /\ layeridx = 0
           /\ hidden = None
           /\ forward_last_layer_hidden_all = <<>> /\ forward_hidden_all = <<>>
           /\ forward_candidates_all = <<>>
           /\ backward_last_layer_hidden_all = <<>> /\ backward_hidden_all = <<>>
           /\ backward_candidates_all = <<>>
           /\ outputs = None
           /\ calls = <<>>

(* ------------------------------------- get_variable_length_last_symbol *)
\* the loop over symbol_list: each symbol reshaped and transposed to get a
\* leading time axis; hs is h_list
RECURSIVE TimeMajorFrom(_, _, _, _)
TimeMajorFrom(g, symbol_list, k, hs) ==
    IF k > Len(symbol_list) THEN [graph |-> g, h_list |-> hs]
    ELSE LET g1 == Emit(g, Reshape(symbol_list[k], <<-2, 1>>))
             g2 == Emit(g1, Transpose(Top(g1), <<2, 0, 1>>))
         IN TimeMajorFrom(g2, symbol_list, k + 1, Append(hs, Top(g2)))

\* get_variable_length_last_symbol(symbol_list, length_symbol)
get_variable_length_last_symbol(g, symbol_list, length_symbol) ==
    LET tm == TimeMajorFrom(g, symbol_list, 1, <<>>)
        g1 == Emit(tm.graph, Concat(tm.h_list, 0))
        g2 == Emit(g1, SequenceLast(Top(g1), length_symbol, "SequenceLast_last_h"))
    IN [graph |-> g2, sym |-> Top(g2)]

(* ------------------------------------------------------- unroll: begin *)
\* the slices of data and mask every unroll routine starts with
SliceInputs(g) ==
    LET g1 == Emit(g, SliceSqueeze(data, seq_len, name \o "_embed_slice_channel"))
        g2 == IF mask # None
              THEN Emit(g1, SliceSqueeze(mask, seq_len, name \o "_mask_slice_channel"))
              ELSE g1
    IN [graph |-> g2, wordvec |-> Top(g1),
        maskvec |-> IF mask # None THEN Top(g2) ELSE None]

\* the start of an unroll routine, up to its first loop
BeginUnroll ==
    LET sl == SliceInputs(graph)
    IN /\ graph' = sl.graph
       /\ wordvec' = sl.wordvec
       /\ maskvec' = sl.maskvec
       /\ seqidx' = 0 /\ layeridx' = 0 /\ hidden' = None
       /\ forward_last_layer_hidden_all' = <<>>
       /\ forward_hidden_all' = EmptyLists(num_layers)
       /\ forward_candidates_all' = IF mode = "lstm" THEN EmptyLists(num_layers) ELSE <<>>
       /\ pc' = "forward"
       /\ UNCHANGED <<fields, params, uni_state, fwd_state, bwd_state, bwd_lists,
                      outputs, calls>>

\* the tests of get_outputs, in the order it makes them, and its last
\* branch, which raises 'Invalid parameters'
RunsLstm == mode = "lstm" /\ ~bi_directional
RunsGru == mode = "gru" /\ ~bi_directional
RunsBiLstm == mode = "lstm" /\ bi_directional
RunsBiGru == mode = "gru" /\ bi_directional
InvalidParameters == ~(RunsLstm \/ RunsGru \/ RunsBiLstm \/ RunsBiGru)

\* get_outputs, dispatching on (mode, bi_directional)
GetOutputsLstm ==
    /\ pc = "idle" /\ RunsLstm
    /\ BeginUnroll

GetOutputsGru ==
    /\ pc = "idle" /\ ~RunsLstm /\ RunsGru
    /\ BeginUnroll

GetOutputsBiLstm ==
    /\ pc = "idle" /\ ~RunsLstm /\ ~RunsGru /\ RunsBiLstm
    /\ BeginUnroll

GetOutputsBiGru ==
    /\ pc = "idle" /\ ~RunsLstm /\ ~RunsGru /\ ~RunsBiLstm /\ RunsBiGru
    /\ BeginUnroll

(* ------------------------------------------------- unroll: one cell *)
\* the configured dropout rate whatever the layer
DpRatioAll(i) == dropout

\* the dropout rate an unroll routine passes to the cell of layer i
DpRatio(i) == IF i = 0 THEN 0 ELSE dropout

\* the slice of data whatever the layer
CellIndataSlice(k, i) == Sym(wordvec.node, k)

\* the input an unroll routine passes to the cell of layer i at position k:
\* the slice of data for layer 0, the hidden output of the layer below else
CellIndata(k, i) == IF i = 0 THEN Sym(wordvec.node, k) ELSE hidden

\* the mask slice of position 0 whatever the position
MaskAtFirst(k) == IF mask = None THEN None ELSE Sym(maskvec.node, 0)

\* no mask slice whatever the position
MaskAtNone(k) == None

\* the mask slice of position k, None without a mask
MaskAt(k) == IF mask = None THEN None ELSE Sym(maskvec.node, k)

\* the position the backward loop visits in its iteration seqidx
BackwardPos(sq) == seq_len - sq - 1

\* the cell of layer layeridx applied at position k with the given previous
\* state and parameter lists: the new graph, the next state, the call made
CellCall(dir, k, prev_states, param_list) ==
    LET i == layeridx
        indata == CellIndata(k, i)
        msk == MaskAt(k)
        prev == prev_states[i + 1]
        par == param_list[i + 1]
        r == IF mode = "lstm"
             THEN lstm(graph, num_hidden, indata, msk, prev, par, k, i, DpRatio(i))
             ELSE gru(graph, num_hidden, indata, msk, prev, par, k, i, DpRatio(i))
    IN [graph |-> r.graph, state |-> r.state,
        call |-> [dir |-> dir, seqidx |-> k, layeridx |-> i, indata |-> indata,
                  mask |-> msk, prev_state |-> prev, param |-> par,
                  dropout |-> DpRatio(i), next_state |-> r.state,
                  first |-> Len(graph) + 1, last |-> Len(r.graph)]]

\* the loop counters after the cell of (seqidx, layeridx)
AdvanceLoop(after) ==
    /\ layeridx' = IF layeridx + 1 < num_layers THEN layeridx + 1 ELSE 0
    /\ seqidx' = IF layeridx + 1 < num_layers THEN seqidx
                 ELSE IF seqidx + 1 < seq_len THEN seqidx + 1 ELSE 0
    /\ pc' = IF layeridx + 1 = num_layers /\ seqidx + 1 = seq_len THEN after ELSE pc

\* one iteration of the forward loops: the lists the cell's result is
\* appended to
ForwardAppend(r) ==
    /\ graph' = r.graph
    /\ hidden' = r.state.h
    /\ forward_hidden_all' =
          [forward_hidden_all EXCEPT ![layeridx + 1] = Append(@, r.state.h)]
    /\ forward_candidates_all' =
          IF mode = "lstm"
          THEN [forward_candidates_all EXCEPT ![layeridx + 1] = Append(@, r.state.c)]
          ELSE forward_candidates_all
    /\ forward_last_layer_hidden_all' =
          IF layeridx + 1 = num_layers
          THEN Append(forward_last_layer_hidden_all, r.state.h)
          ELSE forward_last_layer_hidden_all
    /\ calls' = Append(calls, r.call)

\* one iteration of the loops of lstm_unroll / gru_unroll
UnrollStep ==
    LET r == CellCall("uni", seqidx, last_states, param_cells)
    IN /\ last_states' = [last_states EXCEPT ![layeridx + 1] = r.state]
       /\ ForwardAppend(r)
       /\ AdvanceLoop("collect")
       /\ UNCHANGED <<fields, params, fwd_state, bwd_state, wordvec, maskvec,
                      bwd_lists, outputs>>

LstmUnrollStep ==
    /\ pc = "forward" /\ mode = "lstm" /\ ~bi_directional
    /\ UnrollStep

GruUnrollStep ==
    /\ pc = "forward" /\ mode = "gru" /\ ~bi_directional
    /\ UnrollStep

\* the backward lists as created between the two loops of a bidirectional
\* routine
BackwardListsInit ==
    /\ backward_last_layer_hidden_all' = <<>>
    /\ backward_hidden_all' = EmptyLists(num_layers)
    /\ backward_candidates_all' = IF mode = "lstm" THEN EmptyLists(num_layers) ELSE <<>>

\* one iteration of the forward loops of bi_lstm_unroll / bi_gru_unroll
BiForwardStep ==
    LET r == CellCall("forward", seqidx, forward_last_states, forward_param_cells)
    IN /\ forward_last_states' = [forward_last_states EXCEPT ![layeridx + 1] = r.state]
       /\ ForwardAppend(r)
       /\ AdvanceLoop("backward")
       /\ IF layeridx + 1 = num_layers /\ seqidx + 1 = seq_len
          THEN BackwardListsInit
          ELSE UNCHANGED bwd_lists
       /\ UNCHANGED <<fields, params, uni_state, bwd_state, wordvec, maskvec, outputs>>

BiLstmForwardStep ==
    /\ pc = "forward" /\ mode = "lstm" /\ bi_directional
    /\ BiForwardStep

BiGruForwardStep ==
    /\ pc = "forward" /\ mode = "gru" /\ bi_directional
    /\ BiForwardStep

\* the forward state list read by the backward loop
ForwardStatesInBackward == forward_last_states

\* the parameters of the forward direction in place of the backward ones
ForwardParamsInBackward == forward_param_cells

\* the state and parameter lists the backward loops read
BackwardPrevStates == backward_last_states
BackwardParams == backward_param_cells

\* one iteration of the backward loops: the results are inserted at the
\* front of backward_hidden_all and backward_candidates_all themselves
BiBackwardStep ==
    LET r == CellCall("backward", BackwardPos(seqidx),
                      BackwardPrevStates, BackwardParams)
    IN /\ backward_last_states' = [backward_last_states EXCEPT ![layeridx + 1] = r.state]
       /\ graph' = r.graph
       /\ hidden' = r.state.h
       /\ backward_hidden_all' = Insert0(backward_hidden_all, r.state.h)
       /\ backward_candidates_all' =
             IF mode = "lstm" THEN Insert0(backward_candidates_all, r.state.c)
             ELSE backward_candidates_all
       /\ backward_last_layer_hidden_all' =
             IF layeridx + 1 = num_layers
             THEN Insert0(backward_last_layer_hidden_all, r.state.h)
             ELSE backward_last_layer_hidden_all
       /\ calls' = Append(calls, r.call)
       /\ AdvanceLoop("collect")
       /\ UNCHANGED <<fields, params, uni_state, fwd_state, wordvec, maskvec,
                      fwd_lists, outputs>>

BiLstmBackwardStep ==
    /\ pc = "backward" /\ mode = "lstm" /\ bi_directional
    /\ BiBackwardStep

BiGruBackwardStep ==
    /\ pc = "backward" /\ mode = "gru" /\ bi_directional
    /\ BiBackwardStep

(* ----------------------------------------------------- unroll: outputs *)
\* the loop over layers that builds last_time in lstm_unroll / gru_unroll
RECURSIVE LastTimeFrom(_, _, _, _)
LastTimeFrom(g, i, hs, cs) ==
    IF i >= num_layers THEN [graph |-> g, hidden |-> hs, cell |-> cs]
    ELSE LET last_h == get_variable_length_last_symbol(g, forward_hidden_all[i + 1],
                                                       real_seq_len)
         IN IF mode = "lstm"
            THEN LET last_c == get_variable_length_last_symbol(
                                   last_h.graph, forward_candidates_all[i + 1], real_seq_len)
                 IN LastTimeFrom(last_c.graph, i + 1, Append(hs, last_h.sym),
                                 Append(cs, last_c.sym))
            ELSE LastTimeFrom(last_h.graph, i + 1, Append(hs, last_h.sym), cs)

\* the end of lstm_unroll / gru_unroll; the cell entry is None for gru
UniCollect ==
    LET lt == LastTimeFrom(graph, 0, <<>>, <<>>)
    IN /\ graph' = lt.graph
       /\ outputs' = [last_layer |-> forward_last_layer_hidden_all,
                      last_time |-> [hidden |-> lt.hidden,
                                     cell |-> IF mode = "lstm" THEN lt.cell ELSE NoneList]]
       /\ pc' = "done"
       /\ UNCHANGED <<fields, params, uni_state, fwd_state, bwd_state, wordvec, maskvec,
                      seqidx, layeridx, hidden, fwd_lists, bwd_lists, calls>>

LstmCollect ==
    /\ pc = "collect" /\ mode = "lstm" /\ ~bi_directional
    /\ UniCollect

GruCollect ==
    /\ pc = "collect" /\ mode = "gru" /\ ~bi_directional
    /\ UniCollect

\* the backward final state the bidirectional routines pair with layer i
BackwardLast(lst, i) == lst[1]

\* the loop over layers that builds last_time in bi_lstm_unroll / bi_gru_unroll
RECURSIVE BiLastTimeFrom(_, _, _, _)
BiLastTimeFrom(g, i, hs, cs) ==
    IF i >= num_layers THEN [graph |-> g, hidden |-> hs, cell |-> cs]
    ELSE LET fh == get_variable_length_last_symbol(g, forward_hidden_all[i + 1],
                                                   real_seq_len)
         IN IF mode = "lstm"
            THEN LET fc == get_variable_length_last_symbol(
                               fh.graph, forward_candidates_all[i + 1], real_seq_len)
                     g1 == Emit(fc.graph,
                                Concat(<<fh.sym, BackwardLast(backward_hidden_all, i)>>, 1))
                     g2 == Emit(g1,
                                Concat(<<fc.sym, BackwardLast(backward_candidates_all, i)>>, 1))
                 IN BiLastTimeFrom(g2, i + 1, Append(hs, Top(g1)), Append(cs, Top(g2)))
            ELSE LET g1 == Emit(fh.graph,
                                Concat(<<fh.sym, BackwardLast(backward_hidden_all, i)>>, 1))
                 IN BiLastTimeFrom(g1, i + 1, Append(hs, Top(g1)), cs)

\* the loop over timesteps that builds last_layer in the bidirectional routines
RECURSIVE BiLastLayerFrom(_, _, _)
BiLastLayerFrom(g, t, acc) ==
    IF t >= seq_len THEN [graph |-> g, last_layer |-> acc]
    ELSE LET g1 == Emit(g, Concat(<<forward_last_layer_hidden_all[t + 1],
                                    backward_last_layer_hidden_all[t + 1]>>, 1))
         IN BiLastLayerFrom(g1, t + 1, Append(acc, Top(g1)))

\* the end of bi_lstm_unroll / bi_gru_unroll
BiCollect ==
    LET lt == BiLastTimeFrom(graph, 0, <<>>, <<>>)
        ll == BiLastLayerFrom(lt.graph, 0, <<>>)
    IN /\ graph' = ll.graph
       /\ outputs' = [last_layer |-> ll.last_layer,
                      last_time |-> [hidden |-> lt.hidden,
                                     cell |-> IF mode = "lstm" THEN lt.cell ELSE NoneList]]
       /\ pc' = "done"
       /\ UNCHANGED <<fields, params, uni_state, fwd_state, bwd_state, wordvec, maskvec,
                      seqidx, layeridx, hidden, fwd_lists, bwd_lists, calls>>

BiLstmCollect ==
    /\ pc = "collect" /\ mode = "lstm" /\ bi_directional
    /\ BiCollect

BiGruCollect ==
    /\ pc = "collect" /\ mode = "gru" /\ bi_directional
    /\ BiCollect

(* --------------------------------------------------- executing a graph *)
(* What the engine computes for one example when the graph is bound to a   *)
(* feed: data holds one number per timestep, a mask one bit per timestep,  *)
(* real_seq_len the example's length.  A vector is a sequence of integers; *)
(* the activations are taken at their saturated limits, sigmoid as the     *)
(* step to {0, 1} and tanh as the sign.  Dropout is the identity, as at    *)
(* inference.                                                              *)

\* the vector <<F(1), ..., F(n)>>, every entry computed when it is built
Vec(n, F(_)) ==
    LET upto[k \in 0..n] == IF k = 0 THEN <<>> ELSE Append(upto[k - 1], F(k))
    IN upto[n]

\* the symbols held in the fields of the parameter tuples of a list
ParamSyms(lst) ==
    UNION { {lst[i][f] : f \in DOMAIN lst[i]} : i \in DOMAIN lst }

ParamNodes ==
    { sy.node : sy \in ParamSyms(param_cells) \cup ParamSyms(forward_param_cells)
                       \cup ParamSyms(backward_param_cells) }

\* entry (j, k) of the weight and entry j of the bias bound to a parameter
\* variable, each in {-1, 0, 1}; the variable's value is the seed of its
\* entries, row j being read from the j-th ternary digit of the seed
WeightEntry(seed, j, k) == (((seed + k) \div (3 ^ (j - 1))) % 3) - 1
BiasEntry(seed, j) == ((seed \div (3 ^ (j - 1))) % 3) - 1

\* the width of the initial state bound to variable id: a state supplied to
\* a bidirectional network holds both directions
InitWidth(id) ==
    IF bi_directional /\ ( (\E i \in DOMAIN states : states[i].node = id)
                            \/ (\E i \in DOMAIN cells : cells[i].node = id) )
    THEN 2 * num_hidden ELSE num_hidden

\* the value bound to variable node id by the feed; feed.params holds the
\* nodes of the parameter variables
VarValue(id, feed) ==
    IF id = data.node THEN Vec(seq_len, LAMBDA t : <<feed.x[t]>>)
    ELSE IF id = mask.node THEN Vec(seq_len, LAMBDA t : feed.m[t])
    ELSE IF id = real_seq_len.node THEN feed.n
    ELSE IF id \in feed.params THEN feed.w + id
    ELSE Vec(InitWidth(id), LAMBDA j : feed.h0 + j - 1)

Sigmoid(z) == IF z > 0 THEN 1 ELSE 0
Tanh(z) == IF z > 0 THEN 1 ELSE IF z < 0 THEN -1 ELSE 0

\* the value of symbol sy given the values of the nodes
ValueOf(vals, g, sy) ==
    IF g[sy.node].op = "SliceChannel" THEN vals[sy.node][sy.out + 1]
    ELSE vals[sy.node]

RECURSIVE Dot(_, _, _, _)
Dot(seed, j, v, k) ==
    IF k > Len(v) THEN 0 ELSE WeightEntry(seed, j, k) * v[k] + Dot(seed, j, v, k + 1)

RECURSIVE Flatten(_, _)
Flatten(vs, k) == IF k > Len(vs) THEN <<>> ELSE vs[k] \o Flatten(vs, k + 1)

\* output k (from 1) of n equal chunks of v
Chunk(v, n, k) ==
    LET w == Len(v) \div n IN SubSeq(v, (k - 1) * w + 1, k * w)

\* the value of node nd given the values a of its arguments
Apply(nd, a, id, feed) ==
    CASE nd.op = "Variable" -> VarValue(id, feed)
      [] nd.op = "Dropout" -> a[1]
      [] nd.op = "FullyConnected" ->
            Vec(nd.attr.num_hidden, LAMBDA j : Dot(a[2], j, a[1], 1) + BiasEntry(a[3], j))
      [] nd.op = "SliceChannel" ->
            IF nd.attr.squeeze_axis THEN a[1]
            ELSE Vec(nd.attr.num_outputs, LAMBDA k : Chunk(a[1], nd.attr.num_outputs, k))
      [] nd.op = "Activation" ->
            IF nd.attr.act_type = "sigmoid" THEN Vec(Len(a[1]), LAMBDA j : Sigmoid(a[1][j]))
            ELSE Vec(Len(a[1]), LAMBDA j : Tanh(a[1][j]))
      [] nd.op = "_Plus" -> Vec(Len(a[1]), LAMBDA j : a[1][j] + a[2][j])
      [] nd.op = "_Mul" -> Vec(Len(a[1]), LAMBDA j : a[1][j] * a[2][j])
      [] nd.op = "_Minus" -> Vec(Len(a[1]), LAMBDA j : a[1][j] - a[2][j])
      [] nd.op = "Reshape" -> IF nd.attr.shape = <<-1, 1>> THEN <<a[1]>> ELSE a[1]
      [] nd.op = "transpose" -> <<a[1]>>
      [] nd.op = "broadcast_mul" -> Vec(Len(a[1]), LAMBDA j : a[1][j] * a[2][1])
      [] nd.op = "Concat" -> Flatten(a, 1)
      [] nd.op = "SequenceLast" ->
            IF nd.attr.use_sequence_length THEN a[1][a[2]] ELSE a[1][Len(a[1])]

\* the values of the arguments of node nd
ArgValues(vals, g, nd) ==
    Vec(Len(nd.args), LAMBDA j : ValueOf(vals, g, nd.args[j]))

\* the values of nodes lo..hi of g appended to vals, the values of the
\* nodes before lo: a node is evaluated once the nodes before it are, and
\* the range is halved to keep the evaluation shallow
RECURSIVE EvalRange(_, _, _, _, _)
EvalRange(g, feed, lo, hi, vals) ==
    IF lo > hi \/ Len(vals) # lo - 1 THEN vals
    ELSE IF lo = hi
    THEN Append(vals, Apply(g[lo], ArgValues(vals, g, g[lo]), lo, feed))
    ELSE EvalRange(g, feed, (lo + hi) \div 2 + 1, hi,
                   EvalRange(g, feed, lo, (lo + hi) \div 2, vals))

\* the values of all nodes of the graph under the feed
Eval(feed) == EvalRange(graph, feed, 1, Len(graph), <<>>)

Feed(x, m, n, w, h0) ==
    [x |-> x, m |-> m, n |-> n, w |-> w, h0 |-> h0, params |-> ParamNodes]

Next ==
    \/ GetOutputsLstm \/ GetOutputsGru \/ GetOutputsBiLstm \/ GetOutputsBiGru
    \/ LstmUnrollStep \/ GruUnrollStep
    \/ BiLstmForwardStep \/ BiGruForwardStep
    \/ BiLstmBackwardStep \/ BiGruBackwardStep
    \/ LstmCollect \/ GruCollect \/ BiLstmCollect \/ BiGruCollect

Spec == Init /\ [][Next]_vars

(* ------------------------------------------- get_outputs called again *)
\* the number of cells one unroll routine applies
CellsPerRun == seq_len * num_layers * (IF bi_directional THEN 2 ELSE 1)

\* get_outputs called a second time on the object, once the first call has
\* returned: the same routine starts over on the lists the first call left
GetOutputsAgain ==
    /\ pc = "done" /\ Len(calls) = CellsPerRun
    /\ ~InvalidParameters
    /\ BeginUnroll

NextTwice == Next \/ GetOutputsAgain

\* the object with get_outputs called up to twice
SpecTwice == Init /\ [][NextTwice]_vars

(* ------------------------------------------------------ views of a run *)
Done == pc = "done"

\* the direction tag of the forward pass of the object
FwdDir == IF bi_directional THEN "forward" ELSE "uni"

\* the logged calls of one direction, in call order
CallsOf(dir) == SelectSeq(calls, LAMBDA c : c.dir = dir)

\* the logged calls of direction dir at position t for layer i
CallsAt(dir, t, i) ==
    { k \in DOMAIN calls : calls[k].dir = dir /\ calls[k].seqidx = t
                           /\ calls[k].layeridx = i }

\* the state layer i of direction dir produced at position t
StateAt(dir, t, i) == calls[CHOOSE k \in CallsAt(dir, t, i) : TRUE].next_state

\* the symbols a length-indexed gather selects from, in the order given to it
GatherInputs(sy) ==
    LET cat == graph[graph[sy.node].args[1].node]
    IN [k \in DOMAIN cat.args |->
           graph[graph[cat.args[k].node].args[1].node].args[1]]

IsGather(sy) ==
    /\ graph[sy.node].op = "SequenceLast"
    /\ graph[graph[sy.node].args[1].node].op = "Concat"
    /\ graph[graph[sy.node].args[1].node].attr.dim = 0

IsConcat1(sy) ==
    /\ graph[sy.node].op = "Concat"
    /\ graph[sy.node].attr.dim = 1

(* ------------------------------------------------------------------ C1 *)
\* C1: when get_outputs has returned, 'last_layer' holds exactly seq_len
\* entries; entry t is the hidden state the topmost layer produced at
\* timestep t, and for a bidirectional network the feature-axis
\* concatenation of the forward and the backward top-layer hidden of
\* timestep t, forward first.
C1_LastLayer ==
    Done =>
        /\ Len(outputs.last_layer) = seq_len
        /\ \A t \in 0..(seq_len - 1) :
              /\ Cardinality(CallsAt(FwdDir, t, num_layers - 1)) = 1
              /\ IF bi_directional
                 THEN /\ Cardinality(CallsAt("backward", t, num_layers - 1)) = 1
                      /\ IsConcat1(outputs.last_layer[t + 1])
                      /\ graph[outputs.last_layer[t + 1].node].args =
                            << StateAt("forward", t, num_layers - 1).h,
                               StateAt("backward", t, num_layers - 1).h >>
                 ELSE outputs.last_layer[t + 1] = StateAt("uni", t, num_layers - 1).h

C1_Witness ==
    Done /\ bi_directional /\ seq_len >= 2 /\ num_layers >= 2
    /\ Len(outputs.last_layer) = seq_len

(* ------------------------------------------------------------------ C2 *)
\* C2: in a bidirectional network, entry i of last_time.hidden (and of
\* last_time.cell for LSTM) is the concatenation of layer i's own forward
\* final state and layer i's own backward final state, the state layer i's
\* backward cell produced at timestep 0.
C2_OwnBackwardFinal ==
    (Done /\ bi_directional) =>
        \A i \in 0..(num_layers - 1) :
            /\ IsConcat1(outputs.last_time.hidden[i + 1])
            /\ graph[outputs.last_time.hidden[i + 1].node].args[2] =
                  StateAt("backward", 0, i).h
            /\ IsGather(graph[outputs.last_time.hidden[i + 1].node].args[1])
            /\ GatherInputs(graph[outputs.last_time.hidden[i + 1].node].args[1]) =
                  [t \in 1..seq_len |-> StateAt("forward", t - 1, i).h]
            /\ mode = "lstm" =>
                  /\ IsConcat1(outputs.last_time.cell[i + 1])
                  /\ graph[outputs.last_time.cell[i + 1].node].args[2] =
                        StateAt("backward", 0, i).c
                  /\ IsGather(graph[outputs.last_time.cell[i + 1].node].args[1])
                  /\ GatherInputs(graph[outputs.last_time.cell[i + 1].node].args[1]) =
                        [t \in 1..seq_len |-> StateAt("forward", t - 1, i).c]

(* ------------------------------------------------------------------ C3 *)
\* the feeds the masking claims are evaluated under: every mask over the
\* timesteps, data of ones, initial states of ones
Ones == [t \in 1..seq_len |-> 1]
MaskFeeds == { Feed(Ones, m, 1, 0, 1) : m \in [1..seq_len -> {0, 1}] }

Zeros == [j \in 1..num_hidden |-> 0]

\* call c leaves the example's state as it found it, under values v
StateKept(v, c) ==
    /\ ValueOf(v, graph, c.next_state.h) = ValueOf(v, graph, c.prev_state.h)
    /\ mode = "lstm" =>
          ValueOf(v, graph, c.next_state.c) = ValueOf(v, graph, c.prev_state.c)

\* call c leaves the example's state zero, under values v
StateZeroed(v, c) ==
    /\ ValueOf(v, graph, c.next_state.h) = Zeros
    /\ mode = "lstm" => ValueOf(v, graph, c.next_state.c) = Zeros

\* under values v of a feed, every call at a padded timestep keeps the state
PaddedStepsKeep(v, feed) ==
    \A k \in DOMAIN calls :
        feed.m[calls[k].seqidx + 1] = 0 => StateKept(v, calls[k])

\* under values v of a feed, every call at a padded timestep zeroes the state
PaddedStepsZero(v, feed) ==
    \A k \in DOMAIN calls :
        feed.m[calls[k].seqidx + 1] = 0 => StateZeroed(v, calls[k])

\* a call at a padded timestep after the first zeroes a nonzero state
PaddedStepZeroesNonzero(v, feed) ==
    \E k \in DOMAIN calls :
        /\ feed.m[calls[k].seqidx + 1] = 0
        /\ calls[k].seqidx >= 1
        /\ ValueOf(v, graph, calls[k].prev_state.h) # Zeros
        /\ StateZeroed(v, calls[k])

\* C3 as claimed: with a mask supplied, a cell applied at a timestep whose
\* mask value is 0 carries out the state (h, and c for LSTM) that was
\* carried into it.
C3_PaddedStepKeepsState ==
    (Done /\ mask # None) =>
        \A feed \in MaskFeeds : PaddedStepsKeep(Eval(feed), feed)

\* C3 as amended: with a mask supplied, a cell applied at a timestep whose
\* mask value is 0 carries out the zero state (h, and c for LSTM), whatever
\* state was carried into it.
C3_PaddedStepZeroesState ==
    (Done /\ mask # None) =>
        \A feed \in MaskFeeds : PaddedStepsZero(Eval(feed), feed)

C3_Witness ==
    /\ Done /\ mask # None /\ seq_len >= 2
    /\ \E feed \in MaskFeeds : PaddedStepZeroesNonzero(Eval(feed), feed)

(* ------------------------------------------------- reading the graph *)
OpOf(sy) == graph[sy.node].op
ArgsOf(sy) == graph[sy.node].args
AttrOf(sy) == graph[sy.node].attr

\* sy is the activation act of x; sy is the binary operator op of a and b;
\* sy is the affine transform of x by (w, b) to width n
IsAct(sy, act, x) ==
    OpOf(sy) = "Activation" /\ AttrOf(sy).act_type = act /\ ArgsOf(sy) = <<x>>
IsBin(sy, op, a, b) == OpOf(sy) = op /\ ArgsOf(sy) = <<a, b>>
IsFC(sy, x, w, b, n) ==
    OpOf(sy) = "FullyConnected" /\ ArgsOf(sy) = <<x, w, b>> /\ AttrOf(sy).num_hidden = n

\* the object as __init__ left it
Constructed ==
    Construct(mode, bi_directional, num_layers, mask # None, real_seq_len # None,
              states # NoneList, cells # NoneList)

\* the initial states of direction dir, one per layer
InitialStates(dir) ==
    IF dir = "uni" THEN Constructed.last_states
    ELSE IF dir = "forward" THEN Constructed.forward_last_states
    ELSE Constructed.backward_last_states

\* the graph nodes call c appended
CellNodes(c) == c.first..c.last

\* the symbol the affine transforms of call c read the cell's input through
CellX(c) == IF c.dropout > 0 THEN Sym(c.first, 0) ELSE c.indata

\* a state component of call c before the mask is applied to it
Unmasked(sy) == IF mask # None THEN ArgsOf(sy)[1] ELSE sy

\* the node that splits the gate pre-activation of call c, and the summed
\* pre-activation it splits
GateSlice(c) == CHOOSE n \in CellNodes(c) : graph[n].op = "SliceChannel"
PreActivation(c) == graph[GateSlice(c)].args[1]

(* ------------------------------------------------------------------ C4 *)
\* the forward final state held in entry i of a last_time list
ForwardFinal(lst, i) == IF bi_directional THEN ArgsOf(lst[i + 1])[1] ELSE lst[i + 1]

\* component comp of the states layer i produced in direction dir, in
\* timestep order
LayerStates(dir, i, comp) == [t \in 1..seq_len |-> StateAt(dir, t - 1, i)[comp]]

\* sy gathers from layer i's full sequence, by real_seq_len when supplied
GatherOver(sy, dir, i, comp) ==
    /\ IsGather(sy)
    /\ GatherInputs(sy) = LayerStates(dir, i, comp)
    /\ AttrOf(sy).use_sequence_length = (real_seq_len # None)
    /\ real_seq_len # None => ArgsOf(sy)[2] = real_seq_len

\* an example of each real length n, its mask valid on the first n timesteps
LengthFeeds ==
    { Feed(Ones, [t \in 1..seq_len |-> IF t <= n THEN 1 ELSE 0], n, 0, 1) :
        n \in 1..seq_len }

\* the timestep the final state of the example of a feed is to come from
SelectedIndex(feed) == IF real_seq_len # None THEN feed.n - 1 ELSE seq_len - 1

\* under values v, the forward final state of layer i is the state of the
\* selected timestep
FinalSelectedAt(v, feed, i) ==
    /\ ValueOf(v, graph, ForwardFinal(outputs.last_time.hidden, i)) =
          ValueOf(v, graph, StateAt(FwdDir, SelectedIndex(feed), i).h)
    /\ mode = "lstm" =>
          ValueOf(v, graph, ForwardFinal(outputs.last_time.cell, i)) =
             ValueOf(v, graph, StateAt(FwdDir, SelectedIndex(feed), i).c)

FinalSelected(v, feed) ==
    \A i \in 0..(num_layers - 1) : FinalSelectedAt(v, feed, i)

\* the gather picks a state other than the last timestep's
SelectsEarlier(v, feed) ==
    /\ feed.n < seq_len
    /\ FinalSelectedAt(v, feed, 0)
    /\ ValueOf(v, graph, ForwardFinal(outputs.last_time.hidden, 0)) #
          ValueOf(v, graph, StateAt(FwdDir, seq_len - 1, 0).h)

\* C4: the forward final state of layer i (of a unidirectional network, and
\* of the forward direction of a bidirectional one) is gathered from layer
\* i's per-timestep sequence given in order 0..T-1; an example of real
\* length n gets the value at index n-1 when real_seq_len is supplied, and
\* the value at index T-1 when it is None.
C4_FinalStateGather ==
    Done =>
        /\ \A i \in 0..(num_layers - 1) :
              /\ GatherOver(ForwardFinal(outputs.last_time.hidden, i), FwdDir, i, "h")
              /\ mode = "lstm" =>
                    GatherOver(ForwardFinal(outputs.last_time.cell, i), FwdDir, i, "c")
        /\ \A feed \in LengthFeeds : FinalSelected(Eval(feed), feed)

C4_Witness ==
    /\ Done /\ real_seq_len # None /\ mask # None /\ seq_len >= 2
    /\ \E feed \in LengthFeeds : SelectsEarlier(Eval(feed), feed)

(* ------------------------------------------------------------------ C5 *)
\* component comp of every state layer i produced, in either direction
LayerOutputs(i, comp) ==
    { calls[k].next_state[comp] : k \in { j \in DOMAIN calls : calls[j].layeridx = i } }

\* the states an entry of a last_time list is computed from
EntrySources(sy) ==
    IF bi_directional
    THEN { GatherInputs(ArgsOf(sy)[1])[t] : t \in 1..seq_len } \cup { ArgsOf(sy)[2] }
    ELSE { GatherInputs(sy)[t] : t \in 1..seq_len }

\* C5: last_time.hidden has exactly num_layers entries, entry i computed from
\* layer i's hidden states only; for lstm last_time.cell has num_layers
\* entries computed likewise from layer i's cell states, for gru it is None.
C5_PerLayerLastTime ==
    Done =>
        /\ Len(outputs.last_time.hidden) = num_layers
        /\ \A i \in 0..(num_layers - 1) :
              EntrySources(outputs.last_time.hidden[i + 1]) \subseteq LayerOutputs(i, "h")
        /\ IF mode = "lstm"
           THEN /\ Len(outputs.last_time.cell) = num_layers
                /\ \A i \in 0..(num_layers - 1) :
                      EntrySources(outputs.last_time.cell[i + 1]) \subseteq
                          LayerOutputs(i, "c")
           ELSE outputs.last_time.cell = NoneList

(* ------------------------------------------------------------------ C6 *)
\* wordvec holds the per-timestep slices of data
IsDataSlice(sy) ==
    /\ OpOf(sy) = "SliceChannel" /\ ArgsOf(sy) = <<data>>
    /\ AttrOf(sy).num_outputs = seq_len /\ AttrOf(sy).squeeze_axis

\* the k-th cell call of the forward unroll is the call of (t, i)
ForwardCallAt(fc, k, t, i) ==
    /\ fc[k].seqidx = t /\ fc[k].layeridx = i
    /\ IsDataSlice(wordvec)
    /\ fc[k].indata = IF i = 0 THEN Sym(wordvec.node, t) ELSE fc[k - 1].next_state.h
    /\ fc[k].prev_state = IF t = 0 THEN InitialStates(FwdDir)[i + 1]
                          ELSE fc[k - num_layers].next_state

\* C6: the forward unroll applies the cells timestep-major then layer-major,
\* each (t, i) exactly once; the cell at (t, i) takes the slice x_t as input
\* when i = 0 and the hidden output of layer i-1 at timestep t otherwise, and
\* as previous state the output of layer i at timestep t-1, or layer i's
\* initial state when t = 0.
C6_ForwardOrder ==
    /\ Done => Len(CallsOf(FwdDir)) = seq_len * num_layers
    /\ \A k \in 1..Len(CallsOf(FwdDir)) :
          ForwardCallAt(CallsOf(FwdDir), k, (k - 1) \div num_layers, (k - 1) % num_layers)

C6_Witness ==
    /\ Done /\ seq_len >= 2 /\ num_layers >= 2
    /\ Len(CallsOf(FwdDir)) = seq_len * num_layers
    /\ CallsOf(FwdDir)[num_layers + 2].indata = CallsOf(FwdDir)[num_layers + 1].next_state.h
    /\ CallsOf(FwdDir)[num_layers + 2].prev_state = CallsOf(FwdDir)[2].next_state

(* ------------------------------------------------------------------ C7 *)
DropoutNodes(c) == { n \in CellNodes(c) : graph[n].op = "Dropout" }

\* the weights of the affine transforms of call c that consume its input
InputSideWeights(c) ==
    IF mode = "lstm" THEN { c.param.i2h_weight }
    ELSE { c.param.gates_i2h_weight, c.param.trans_i2h_weight }

InputTransforms(c) ==
    { n \in CellNodes(c) : /\ graph[n].op = "FullyConnected"
                           /\ graph[n].args[2] \in InputSideWeights(c) }

\* the nodes of call c that take symbol sy as an argument
Consumers(c, sy) ==
    { n \in CellNodes(c) : \E j \in DOMAIN graph[n].args : graph[n].args[j] = sy }

StateSyms(st) == { st[f] : f \in DOMAIN st }

DropoutOnInputOnly(c) ==
    /\ c.dropout = IF c.layeridx = 0 THEN 0 ELSE dropout
    /\ Cardinality(InputTransforms(c)) = IF mode = "lstm" THEN 1 ELSE 2
    /\ c.indata \notin StateSyms(c.prev_state)
    /\ \A n \in DropoutNodes(c) : graph[n].args[1] \notin StateSyms(c.prev_state)
    /\ IF c.dropout > 0
       THEN /\ DropoutNodes(c) = { c.first }
            /\ graph[c.first].args = <<c.indata>>
            /\ graph[c.first].attr.p = c.dropout
            /\ Consumers(c, c.indata) = { c.first }
            /\ \A n \in InputTransforms(c) : graph[n].args[1] = Sym(c.first, 0)
       ELSE /\ DropoutNodes(c) = {}
            /\ \A n \in InputTransforms(c) : graph[n].args[1] = c.indata

\* C7: in every unroll routine and direction the cell of layer 0 is passed
\* dropout rate 0 and the cell of every layer i >= 1 the configured rate;
\* inside a cell dropout is applied to the cell's input only, never to the
\* previous hidden or cell state, only when the rate is positive, and before
\* every affine transform that consumes the input.
C7_Dropout == \A k \in DOMAIN calls : DropoutOnInputOnly(calls[k])

C7_Witness ==
    /\ Done /\ bi_directional /\ dropout > 0 /\ num_layers >= 2
    /\ \E k \in DOMAIN calls :
          /\ calls[k].dir = "backward" /\ calls[k].layeridx = 1
          /\ DropoutNodes(calls[k]) = { calls[k].first }
    /\ \E k \in DOMAIN calls : calls[k].layeridx = 0 /\ DropoutNodes(calls[k]) = {}

(* ------------------------------------------------------------------ C8 *)
OtherDir(dir) == IF dir = "forward" THEN "backward" ELSE "forward"

ParamsOfDir(dir) ==
    IF dir = "forward" THEN forward_param_cells ELSE backward_param_cells

\* the states direction dir has to offer before call k: its initial states
\* and the states its cells produced so far
StatesOfDir(dir, k) ==
    { InitialStates(dir)[i] : i \in 1..num_layers }
    \cup { calls[j].next_state : j \in { n \in 1..(k - 1) : calls[n].dir = dir } }

\* the number of calls of call k's direction up to call k
RankInDir(k) == Cardinality({ j \in 1..k : calls[j].dir = calls[k].dir })

\* the timestep the r-th call of direction dir is to visit
VisitOf(dir, r) ==
    IF dir = "forward" THEN (r - 1) \div num_layers
    ELSE seq_len - 1 - ((r - 1) \div num_layers)

\* call k reads its own direction only
OwnDirectionOnly(k) ==
    /\ calls[k].dir \in {"forward", "backward"}
    /\ calls[k].seqidx = VisitOf(calls[k].dir, RankInDir(k))
    /\ calls[k].param = ParamsOfDir(calls[k].dir)[calls[k].layeridx + 1]
    /\ StateSyms(calls[k].param) \cap ParamSyms(ParamsOfDir(OtherDir(calls[k].dir))) = {}
    /\ calls[k].prev_state \in StatesOfDir(calls[k].dir, k)
    /\ \A st \in StatesOfDir(OtherDir(calls[k].dir), k) :
          /\ StateSyms(calls[k].prev_state) \cap StateSyms(st) = {}
          /\ calls[k].indata \notin StateSyms(st)

DirectionsApart == \A k \in DOMAIN calls : OwnDirectionOnly(k)

\* the forward pass is over: its states are what its cells left, and stay so
ForwardSettled ==
    /\ forward_param_cells = Constructed.forward_param_cells
    /\ \A i \in 0..(num_layers - 1) :
          /\ forward_last_states[i + 1] = StateAt("forward", seq_len - 1, i)
          /\ forward_hidden_all[i + 1] = LayerStates("forward", i, "h")

\* the backward pass has not begun: its states are the initial ones
BackwardUntouched ==
    /\ backward_param_cells = Constructed.backward_param_cells
    /\ backward_last_states = InitialStates("backward")
    /\ CallsOf("backward") = <<>>

\* C8: in a bidirectional unroll the forward pass visits timesteps 0..T-1
\* with forward_param_cells and forward_last_states only, the backward pass
\* visits T-1..0 with backward_param_cells and backward_last_states only:
\* the backward pass leaves every forward state as the forward pass left it,
\* the forward pass leaves every backward state as constructed, and no cell
\* takes a state, parameter or hidden output of the other direction as
\* input.
C8_DirectionsIndependent ==
    bi_directional =>
        /\ DirectionsApart
        /\ pc \in {"idle", "forward"} => BackwardUntouched
        /\ pc \in {"backward", "collect", "done"} => ForwardSettled

C8_Witness ==
    /\ Done /\ bi_directional /\ seq_len >= 2 /\ num_layers >= 2
    /\ Len(CallsOf("backward")) = seq_len * num_layers
    /\ CallsOf("backward")[1].seqidx = seq_len - 1
    /\ forward_last_states[1] = StateAt("forward", seq_len - 1, 0)

(* ------------------------------------------------------------------ C9 *)
\* the feeds the cell recurrences are evaluated under: two settings of the
\* weights, data and initial states of ones, nothing masked
WeightSeeds == {17, 53}
WeightFeeds == { Feed(Ones, Ones, seq_len, w, 1) : w \in WeightSeeds }

\* call c is wired as the LSTM recurrence, read back from its next state
LstmWired(c) ==
    LET next_c == Unmasked(c.next_state.c)
        next_h == Unmasked(c.next_state.h)
        sl == GateSlice(c)
    IN /\ OpOf(next_c) = "_Plus" /\ OpOf(next_h) = "_Mul"
       /\ IsBin(ArgsOf(next_c)[1], "_Mul", ArgsOf(ArgsOf(next_c)[1])[1], c.prev_state.c)
       /\ IsAct(ArgsOf(ArgsOf(next_c)[1])[1], "sigmoid", Sym(sl, 2))
       /\ OpOf(ArgsOf(next_c)[2]) = "_Mul"
       /\ IsAct(ArgsOf(ArgsOf(next_c)[2])[1], "sigmoid", Sym(sl, 0))
       /\ IsAct(ArgsOf(ArgsOf(next_c)[2])[2], "tanh", Sym(sl, 1))
       /\ IsAct(ArgsOf(next_h)[1], "sigmoid", Sym(sl, 3))
       /\ IsAct(ArgsOf(next_h)[2], "tanh", next_c)
       /\ graph[sl].attr.num_outputs = 4 /\ ~graph[sl].attr.squeeze_axis
       /\ OpOf(PreActivation(c)) = "_Plus"
       /\ IsFC(ArgsOf(PreActivation(c))[1], CellX(c),
               c.param.i2h_weight, c.param.i2h_bias, 4 * num_hidden)
       /\ IsFC(ArgsOf(PreActivation(c))[2], c.prev_state.h,
               c.param.h2h_weight, c.param.h2h_bias, 4 * num_hidden)

\* entry j of the new cell the recurrence gives from pre-activation p and
\* previous cell pc
LstmNewCell(p, prev_c, j) ==
    Sigmoid(p[2 * num_hidden + j]) * prev_c[j]
        + Sigmoid(p[j]) * Tanh(p[num_hidden + j])

\* under values v, call c computes the LSTM recurrence
LstmRecurrenceAt(v, c) ==
    /\ Len(ValueOf(v, graph, PreActivation(c))) = 4 * num_hidden
    /\ \A j \in 1..num_hidden :
          /\ ValueOf(v, graph, Unmasked(c.next_state.c))[j] =
                LstmNewCell(ValueOf(v, graph, PreActivation(c)),
                            ValueOf(v, graph, c.prev_state.c), j)
          /\ ValueOf(v, graph, Unmasked(c.next_state.h))[j] =
                Sigmoid(ValueOf(v, graph, PreActivation(c))[3 * num_hidden + j])
                  * Tanh(ValueOf(v, graph, Unmasked(c.next_state.c))[j])

LstmRecurrence(v) == \A k \in DOMAIN calls : LstmRecurrenceAt(v, calls[k])

\* C9: the LSTM cell sums the input projection and the projection of the
\* previous hidden state (each of width 4*num_hidden), splits the sum into
\* four equal chunks used as input gate (sigmoid), candidate (tanh), forget
\* gate (sigmoid), output gate (sigmoid) in that order; the new cell is
\* forget*prev_c + input*candidate, the new hidden output*tanh(new cell).
C9_LstmRecurrence ==
    mode = "lstm" =>
        /\ \A k \in DOMAIN calls : LstmWired(calls[k])
        /\ Done => \A feed \in WeightFeeds : LstmRecurrence(Eval(feed))

\* under values v, call c keeps a nonzero previous cell through an open
\* forget gate and adds a nonzero gated candidate to it
CellAccumulates(v, c) ==
    /\ ValueOf(v, graph, c.prev_state.c)[1] # 0
    /\ Sigmoid(ValueOf(v, graph, PreActivation(c))[2 * num_hidden + 1]) = 1
    /\ Sigmoid(ValueOf(v, graph, PreActivation(c))[1]) = 1
    /\ Tanh(ValueOf(v, graph, PreActivation(c))[num_hidden + 1]) # 0
    /\ ValueOf(v, graph, Unmasked(c.next_state.c))[1] #
          ValueOf(v, graph, c.prev_state.c)[1]

\* under values v, some call accumulates and some call has a nonzero hidden
SomeCellAccumulates(v) ==
    \E k \in DOMAIN calls : LstmRecurrenceAt(v, calls[k]) /\ CellAccumulates(v, calls[k])
SomeHiddenNonzero(v) ==
    \E k \in DOMAIN calls :
        /\ LstmRecurrenceAt(v, calls[k])
        /\ ValueOf(v, graph, Unmasked(calls[k].next_state.h))[1] # 0

C9_Witness ==
    /\ Done /\ mode = "lstm" /\ seq_len >= 2 /\ num_layers >= 2
    /\ \E feed \in WeightFeeds : SomeCellAccumulates(Eval(feed))
    /\ \E feed \in WeightFeeds : SomeHiddenNonzero(Eval(feed))

(* ----------------------------------------------------------------- C10 *)
\* the candidate of GRU call c, read back from its next state
GruCandidate(c) == ArgsOf(ArgsOf(ArgsOf(Unmasked(c.next_state.h))[2])[2])[1]

\* call c is wired as the GRU recurrence
GruWired(c) ==
    LET next_h == Unmasked(c.next_state.h)
        upd == ArgsOf(Unmasked(c.next_state.h))[2]
        cand == GruCandidate(c)
        sl == GateSlice(c)
    IN /\ IsBin(next_h, "_Plus", c.prev_state.h, upd)
       /\ OpOf(upd) = "_Mul"
       /\ IsAct(ArgsOf(upd)[1], "sigmoid", Sym(sl, 0))
       /\ IsBin(ArgsOf(upd)[2], "_Minus", cand, c.prev_state.h)
       /\ OpOf(cand) = "Activation" /\ AttrOf(cand).act_type = "tanh"
       /\ OpOf(ArgsOf(cand)[1]) = "_Plus"
       /\ IsFC(ArgsOf(ArgsOf(cand)[1])[1], CellX(c),
               c.param.trans_i2h_weight, c.param.trans_i2h_bias, num_hidden)
       /\ IsFC(ArgsOf(ArgsOf(cand)[1])[2], ArgsOf(ArgsOf(ArgsOf(cand)[1])[2])[1],
               c.param.trans_h2h_weight, c.param.trans_h2h_bias, num_hidden)
       /\ OpOf(ArgsOf(ArgsOf(ArgsOf(cand)[1])[2])[1]) = "_Mul"
       /\ ArgsOf(ArgsOf(ArgsOf(ArgsOf(cand)[1])[2])[1])[1] = c.prev_state.h
       /\ IsAct(ArgsOf(ArgsOf(ArgsOf(ArgsOf(cand)[1])[2])[1])[2], "sigmoid", Sym(sl, 1))
       /\ graph[sl].attr.num_outputs = 2 /\ ~graph[sl].attr.squeeze_axis
       /\ OpOf(PreActivation(c)) = "_Plus"
       /\ IsFC(ArgsOf(PreActivation(c))[1], CellX(c),
               c.param.gates_i2h_weight, c.param.gates_i2h_bias, 2 * num_hidden)
       /\ IsFC(ArgsOf(PreActivation(c))[2], c.prev_state.h,
               c.param.gates_h2h_weight, c.param.gates_h2h_bias, 2 * num_hidden)

\* the update gate of call c at entry j, under values v
UpdateGate(v, c, j) == Sigmoid(ValueOf(v, graph, PreActivation(c))[j])

\* under values v, call c computes the GRU recurrence
GruRecurrenceAt(v, c) ==
    /\ Len(ValueOf(v, graph, PreActivation(c))) = 2 * num_hidden
    /\ \A j \in 1..num_hidden :
          /\ ValueOf(v, graph, Unmasked(c.next_state.h))[j] =
                ValueOf(v, graph, c.prev_state.h)[j]
                  + UpdateGate(v, c, j) * (ValueOf(v, graph, GruCandidate(c))[j]
                                             - ValueOf(v, graph, c.prev_state.h)[j])
          /\ UpdateGate(v, c, j) = 0 =>
                ValueOf(v, graph, Unmasked(c.next_state.h))[j] =
                   ValueOf(v, graph, c.prev_state.h)[j]
          /\ UpdateGate(v, c, j) = 1 =>
                ValueOf(v, graph, Unmasked(c.next_state.h))[j] =
                   ValueOf(v, graph, GruCandidate(c))[j]

GruRecurrence(v) == \A k \in DOMAIN calls : GruRecurrenceAt(v, calls[k])

\* under values v, some call with update gate u moves between two different
\* values of previous hidden and candidate
SomeUpdate(v, u) ==
    \E k \in DOMAIN calls :
        /\ UpdateGate(v, calls[k], 1) = u
        /\ ValueOf(v, graph, GruCandidate(calls[k])) #
              ValueOf(v, graph, calls[k].prev_state.h)
        /\ GruRecurrenceAt(v, calls[k])

\* C10: the GRU cell splits the summed gate pre-activation (width
\* 2*num_hidden) into two equal chunks used as update gate and reset gate
\* (both sigmoid) in that order; the candidate is tanh of the input
\* transform plus the hidden transform of (previous hidden * reset gate);
\* the new hidden is prev_h + update*(candidate - prev_h), so update = 0
\* keeps the previous hidden and update = 1 yields the candidate.
C10_GruRecurrence ==
    mode = "gru" =>
        /\ \A k \in DOMAIN calls : GruWired(calls[k])
        /\ Done => \A feed \in WeightFeeds : GruRecurrence(Eval(feed))

C10_Witness ==
    /\ Done /\ mode = "gru" /\ seq_len >= 2
    /\ \E feed \in WeightFeeds : SomeUpdate(Eval(feed), 0)
    /\ \E feed \in WeightFeeds : SomeUpdate(Eval(feed), 1)

(* ----------------------------------------------------------------- C11 *)
\* the directions a network runs, the components a state of its mode holds,
\* and the caller's list each component is initialised from
Dirs == IF bi_directional THEN {"forward", "backward"} ELSE {"uni"}
Components == IF mode = "lstm" THEN {"h", "c"} ELSE {"h"}
Supplied(comp) == IF comp = "h" THEN states ELSE cells

\* the state list of direction dir as the object holds it now
LastStatesOf(dir) ==
    IF dir = "uni" THEN last_states
    ELSE IF dir = "forward" THEN forward_last_states
    ELSE backward_last_states

\* the name of the placeholder of component comp of layer i in direction dir
InitName(dir, i, comp) ==
    name \o (IF dir = "uni" THEN "" ELSE "_" \o dir) \o "_l" \o Fmt(i)
         \o "_init_" \o comp

\* the half of a supplied symbol that initialises direction dir
HalfOf(dir) == IF dir = "forward" THEN 0 ELSE 1

\* sy is what component comp of layer i in direction dir is to start from
IsInitialOf(sy, dir, i, comp) ==
    IF Supplied(comp) = NoneList
    THEN /\ OpOf(sy) = "Variable"
         /\ graph[sy.node].name = InitName(dir, i, comp)
    ELSE IF dir = "uni" THEN sy = Supplied(comp)[i + 1]
    ELSE /\ OpOf(sy) = "SliceChannel"
         /\ ArgsOf(sy) = <<Supplied(comp)[i + 1]>>
         /\ AttrOf(sy).num_outputs = 2 /\ AttrOf(sy).axis = 1
         /\ ~AttrOf(sy).squeeze_axis
         /\ sy.out = HalfOf(dir)

\* under values v, the forward and the backward initial value of component
\* comp of layer i are the first and the second half of the supplied value
HalvesJoin(v, i, comp) ==
    /\ Len(ValueOf(v, graph, forward_last_states[i + 1][comp]))
          = Len(ValueOf(v, graph, backward_last_states[i + 1][comp]))
    /\ ValueOf(v, graph, forward_last_states[i + 1][comp])
          \o ValueOf(v, graph, backward_last_states[i + 1][comp])
          = ValueOf(v, graph, Supplied(comp)[i + 1])

\* the position an unroll processes first in direction dir
FirstPos(dir) == IF dir = "backward" THEN seq_len - 1 ELSE 0

\* a feed of ones whose supplied initial states hold distinct entries
InitFeed == Feed(Ones, Ones, seq_len, 0, 1)

\* C11: a constructed object holds one initial state per layer and
\* direction; component h (resp. c, LSTM only) of layer i is states[i]
\* (resp. cells[i]) when that list is supplied and otherwise a fresh
\* variable named for the layer, each list resolved on its own; for a
\* bidirectional network a supplied symbol is split in two equal halves
\* along axis 1, the first for the forward and the second for the backward
\* direction; and the cells at the first processed position start from
\* these states.
C11_InitialStates ==
    /\ pc = "idle" =>
          \A dir \in Dirs :
              /\ Len(LastStatesOf(dir)) = num_layers
              /\ \A i \in 0..(num_layers - 1) :
                    /\ DOMAIN LastStatesOf(dir)[i + 1] = Components
                    /\ \A comp \in Components :
                          IsInitialOf(LastStatesOf(dir)[i + 1][comp], dir, i, comp)
    /\ (pc = "idle" /\ bi_directional) =>
          \A comp \in Components : \A i \in 0..(num_layers - 1) :
              Supplied(comp) # NoneList => HalvesJoin(Eval(InitFeed), i, comp)
    /\ \A k \in DOMAIN calls :
          calls[k].seqidx = FirstPos(calls[k].dir) =>
              \A comp \in Components :
                  IsInitialOf(calls[k].prev_state[comp], calls[k].dir,
                              calls[k].layeridx, comp)

C11_Witness ==
    /\ Done /\ bi_directional /\ mode = "lstm" /\ num_layers >= 2
    /\ states # NoneList /\ cells = NoneList
    /\ \E k \in DOMAIN calls :
          /\ calls[k].dir = "backward" /\ calls[k].layeridx = 1
          /\ calls[k].seqidx = FirstPos("backward")
          /\ ArgsOf(calls[k].prev_state.h) = <<states[2]>>
          /\ calls[k].prev_state.h.out = 1


(* ----------------------------------------------------------------- C12 *)
\* maskvec holds the per-timestep slices of mask
IsMaskSlice(sy) ==
    /\ OpOf(sy) = "SliceChannel" /\ ArgsOf(sy) = <<mask>>
    /\ AttrOf(sy).num_outputs = seq_len /\ AttrOf(sy).squeeze_axis

\* the nodes of call c that multiply by a mask
MaskMuls(c) == { n \in CellNodes(c) : graph[n].op = "broadcast_mul" }

\* sy, made by call c, is a value of the cell multiplied by mask slice m
\* reshaped to a column
MaskedBy(c, sy, m) ==
    /\ sy.node \in MaskMuls(c)
    /\ ArgsOf(sy)[1].node \in CellNodes(c)
    /\ OpOf(ArgsOf(sy)[1]) \in {"_Plus", "_Mul"}
    /\ ArgsOf(sy)[2].node \in CellNodes(c)
    /\ OpOf(ArgsOf(sy)[2]) = "Reshape"
    /\ ArgsOf(ArgsOf(sy)[2]) = <<m>>

\* call k, made at position calls[k].seqidx, is given the input slice and
\* the mask slice of that position
PositionSlices(k) ==
    /\ IsDataSlice(wordvec)
    /\ IF calls[k].layeridx = 0
       THEN calls[k].indata = Sym(wordvec.node, calls[k].seqidx)
       ELSE /\ k > 1
            /\ calls[k - 1].dir = calls[k].dir
            /\ calls[k - 1].seqidx = calls[k].seqidx
            /\ calls[k - 1].layeridx = calls[k].layeridx - 1
            /\ calls[k].indata = calls[k - 1].next_state.h
    /\ IF mask = None THEN calls[k].mask = None
       ELSE /\ IsMaskSlice(maskvec)
            /\ calls[k].mask = Sym(maskvec.node, calls[k].seqidx)

\* the mask multiplies every component of the next state of call c, and
\* nothing when there is no mask
StateMasked(c) ==
    IF c.mask = None THEN MaskMuls(c) = {}
    ELSE /\ Cardinality(MaskMuls(c)) = Cardinality(Components)
         /\ \A comp \in Components : MaskedBy(c, c.next_state[comp], c.mask)
         /\ \A c1 \in Components, c2 \in Components :
               c1 # c2 => c.next_state[c1] # c.next_state[c2]

\* the position the r-th call of direction dir is made at
PositionOf(dir, r) ==
    IF dir = "backward" THEN seq_len - 1 - ((r - 1) \div num_layers)
    ELSE (r - 1) \div num_layers

\* C12: in every unroll routine the cell applied at position k receives
\* input slice k (through the layers below it) together with mask slice k,
\* the same for every layer at that position, the forward pass visiting
\* k = 0..T-1 and the backward pass k = T-1..0; without a mask no cell
\* multiplies by a mask, and with one the LSTM cell multiplies both the new
\* cell and the new hidden and the GRU cell the new hidden by it.
C12_MaskSlices ==
    \A k \in DOMAIN calls :
        /\ calls[k].seqidx = PositionOf(calls[k].dir, RankInDir(k))
        /\ PositionSlices(k)
        /\ StateMasked(calls[k])

C12_Witness ==
    /\ Done /\ bi_directional /\ mask # None /\ seq_len >= 2 /\ num_layers >= 2
    /\ \E k \in DOMAIN calls :
          /\ calls[k].dir = "backward" /\ calls[k].seqidx = 0
          /\ calls[k].layeridx = 1
          /\ calls[k].mask = Sym(maskvec.node, 0)
          /\ Cardinality(MaskMuls(calls[k])) = Cardinality(Components)


(* ----------------------------------------------------------------- C13 *)
\* the graph holds the caller's symbols and nothing else
OnlyCallerSymbols ==
    graph = CallerSymbols(num_layers, mask # None, real_seq_len # None,
                          states # NoneList, cells # NoneList).graph

\* no parameter list and no state list exists on the object
NoLists ==
    /\ param_cells = NoneList /\ forward_param_cells = NoneList
    /\ backward_param_cells = NoneList
    /\ last_states = NoneList /\ forward_last_states = NoneList
    /\ backward_last_states = NoneList

\* the unroll routines get_outputs can enter from the present state
RoutinesEntered ==
    { r \in {"lstm_unroll", "gru_unroll", "bi_lstm_unroll", "bi_gru_unroll"} :
        CASE r = "lstm_unroll" -> ENABLED GetOutputsLstm
          [] r = "gru_unroll" -> ENABLED GetOutputsGru
          [] r = "bi_lstm_unroll" -> ENABLED GetOutputsBiLstm
          [] r = "bi_gru_unroll" -> ENABLED GetOutputsBiGru }

\* the unroll routine that belongs to (mode, bi_directional)
RoutineOf(md, bi) ==
    (IF bi THEN "bi_" ELSE "") \o md \o "_unroll"

\* the fields of the parameter tuple of the mode
ParamFields ==
    IF mode = "lstm" THEN {"i2h_weight", "i2h_bias", "h2h_weight", "h2h_bias"}
    ELSE {"gates_i2h_weight", "gates_i2h_bias", "gates_h2h_weight", "gates_h2h_bias",
          "trans_i2h_weight", "trans_i2h_bias", "trans_h2h_weight", "trans_h2h_bias"}

\* the cells applied so far are those of the routine of (mode, bi_directional)
CallsOfRoutine ==
    \A k \in DOMAIN calls :
        /\ calls[k].dir \in Dirs
        /\ DOMAIN calls[k].next_state = Components
        /\ DOMAIN calls[k].param = ParamFields

\* C13: a mode other than 'lstm' and 'gru' makes __init__ raise before
\* either setup routine runs, leaving no parameter or state list and no
\* created variable; every object constructed without raising enters, on
\* get_outputs, exactly the unroll routine of its (mode, bi_directional),
\* never the 'Invalid parameters' branch, and that routine applies one cell
\* per timestep, layer and direction.
C13_ModeChecked ==
    /\ (pc = "raised") <=> (mode \notin Modes)
    /\ pc = "raised" => (NoLists /\ OnlyCallerSymbols /\ calls = <<>>)
    /\ pc # "raised" => ~InvalidParameters
    /\ pc = "idle" => RoutinesEntered = {RoutineOf(mode, bi_directional)}
    /\ CallsOfRoutine
    /\ Done => Len(calls) = seq_len * num_layers * Cardinality(Dirs)

C13_Witness ==
    /\ pc = "raised" /\ mode = "rnn" /\ states # NoneList /\ mask # None
    /\ last_states = NoneList /\ param_cells = NoneList


(* ----------------------------------------------------------------- C14 *)
\* call k belongs to the second call of get_outputs; its counterpart in the
\* first call is the call made CellsPerRun calls earlier
InSecondRun(k) == k > CellsPerRun

\* call k of the second run and its counterpart of the first are the cell of
\* the same direction, position and layer
SameCell(k) ==
    /\ calls[k].dir = calls[k - CellsPerRun].dir
    /\ calls[k].seqidx = calls[k - CellsPerRun].seqidx
    /\ calls[k].layeridx = calls[k - CellsPerRun].layeridx

\* C14 as claimed: get_outputs called twice on one object is repeatable: in
\* the second call the cell of every layer and direction at the first
\* processed position starts from the state its counterpart in the first
\* call started from, the initial state of that layer and direction.
C14_Repeatable ==
    \A k \in DOMAIN calls :
        (InSecondRun(k) /\ calls[k].seqidx = FirstPos(calls[k].dir)) =>
            /\ SameCell(k)
            /\ calls[k].prev_state = calls[k - CellsPerRun].prev_state
            /\ calls[k].prev_state = InitialStates(calls[k].dir)[calls[k].layeridx + 1]


(* ----------------------------------------------------------------- C15 *)
\* the parameter list of direction dir as the object holds it now, and as
\* __init__ left it
ParamListOf(dir) ==
    IF dir = "uni" THEN param_cells
    ELSE IF dir = "forward" THEN forward_param_cells
    ELSE backward_param_cells

ConstructedParams(dir) ==
    IF dir = "uni" THEN Constructed.param_cells
    ELSE IF dir = "forward" THEN Constructed.forward_param_cells
    ELSE Constructed.backward_param_cells

\* the weights and biases the affine transforms of call c read
WeightsRead(c) ==
    UNION { {graph[n].args[2], graph[n].args[3]} :
              n \in { m \in CellNodes(c) : graph[m].op = "FullyConnected" } }

\* the (direction, layer) pairs of the object
Slots == Dirs \X (0..(num_layers - 1))

\* the parameter tuple of a slot
TupleOf(sl) == ParamListOf(sl[1])[sl[2] + 1]

\* no symbol is held by two fields of a tuple or by the tuples of two slots
NothingShared ==
    /\ \A sl \in Slots :
          Cardinality(StateSyms(TupleOf(sl))) = Cardinality(DOMAIN TupleOf(sl))
    /\ \A s1 \in Slots, s2 \in Slots :
          s1 # s2 => StateSyms(TupleOf(s1)) \cap StateSyms(TupleOf(s2)) = {}

\* C15: throughout an unroll the parameter lists stay as __init__ built
\* them, each of num_layers tuples; the cell of layer i in a direction, at
\* every timestep, is given that direction's tuple i and reads exactly its
\* weights and biases; no weight is held by two layers or two directions.
C15_WeightsShared ==
    pc # "raised" =>
        /\ \A dir \in Dirs :
              /\ ParamListOf(dir) = ConstructedParams(dir)
              /\ Len(ParamListOf(dir)) = num_layers
        /\ NothingShared
        /\ \A k \in DOMAIN calls :
              /\ calls[k].param = ParamListOf(calls[k].dir)[calls[k].layeridx + 1]
              /\ WeightsRead(calls[k]) = StateSyms(calls[k].param)

C15_Witness ==
    /\ Done /\ bi_directional /\ seq_len >= 2 /\ num_layers >= 2
    /\ \E j \in DOMAIN calls, k \in DOMAIN calls :
          /\ calls[j].dir = "backward" /\ calls[k].dir = "backward"
          /\ calls[j].layeridx = 1 /\ calls[k].layeridx = 1
          /\ calls[j].seqidx # calls[k].seqidx
          /\ calls[j].param = calls[k].param
          /\ calls[j].param = backward_param_cells[2]


(* ----------------------------------------------------------------- C16 *)
\* the placeholder variables the object created: the variables of the graph
\* that are not the caller's symbols
CreatedVariables ==
    { n \in DOMAIN graph :
        /\ graph[n].op = "Variable"
        /\ n > Len(CallerSymbols(num_layers, mask # None, real_seq_len # None,
                                 states # NoneList, cells # NoneList).graph) }

\* the placeholders a constructed object is to hold: the weights and biases
\* of every slot, and the initial states that were not supplied
PlaceholderSyms ==
    UNION { StateSyms(ConstructedParams(sl[1])[sl[2] + 1]) : sl \in Slots }
    \cup UNION { { InitialStates(sl[1])[sl[2] + 1][comp] :
                     comp \in { c \in Components : Supplied(c) = NoneList } } :
                 sl \in Slots }

\* the number of placeholders of one slot
PlaceholdersPerSlot ==
    Cardinality(ParamFields)
    + Cardinality({ c \in Components : Supplied(c) = NoneList })

\* C16: the placeholder variables one object creates, a weight or bias per
\* parameter role, layer and direction and an initial h and c per layer and
\* direction where none is supplied, bear pairwise distinct names, whatever
\* the mode, the direction setting and num_layers.
C16_DistinctNames ==
    pc # "raised" =>
        /\ CreatedVariables = { sy.node : sy \in PlaceholderSyms }
        /\ Cardinality(CreatedVariables) = Cardinality(Slots) * PlaceholdersPerSlot
        /\ \A m \in CreatedVariables, n \in CreatedVariables :
              m # n => graph[m].name # graph[n].name

C16_Witness ==
    /\ Done /\ mode = "lstm" /\ bi_directional /\ num_layers >= 2
    /\ states = NoneList /\ cells = NoneList
    /\ Cardinality(CreatedVariables) >= 24
    /\ \E n \in CreatedVariables : graph[n].name = "rnn_foward_l1_i2h_weight"

====
